---- MODULE Spec2Model ----
(***************************************************************************)
(* Model of utils.py: add_bias (bias injection on a consequent column) and *)
(* compute_cpd (empirical conditional probability table).                  *)
(*                                                                         *)
(* A dataset is a sequence of rows, each row a function from column names  *)
(* to integer levels.  Probabilities and table cells are exact rationals   *)
(* <<numerator, denominator>> in lowest terms; <<0, 0>> is the 0/0 cell    *)
(* (NaN).  A random draw is modelled by the truth values the comparison    *)
(* random.uniform(0,1) <= p can take.  The rounding of IEEE doubles is not *)
(* modelled: sums and quotients are exact.                                 *)
(***************************************************************************)
EXTENDS Integers, Sequences, FiniteSets, TLC

\* ------------------------------------------------------------- bounds
\* most rows of an input dataset
MaxRows == 3
\* add_bias: antecedent and consequent levels are 0..MaxLevel
MaxLevel == 2
\* compute_cpd: evidence levels are 0..MaxEvidenceLevel
MaxEvidenceLevel == 1
\* compute_cpd: target levels are 0..MaxTargetLevel
MaxTargetLevel == 1

\* ------------------------------------------------------------- rationals
Abs(x) == IF x < 0 THEN -x ELSE x

RECURSIVE GCD(_, _)
GCD(a, b) == IF b = 0 THEN a ELSE GCD(b, a % b)

\* n/d in lowest terms, d > 0
Rat(n, d) == LET g == GCD(Abs(n), d) IN <<n \div g, d \div g>>

Zero == <<0, 1>>
One == <<1, 1>>
NaN == <<0, 0>>

IsNaN(c) == c[2] = 0

RatAdd(a, b) == Rat(a[1] * b[2] + b[1] * a[2], a[2] * b[2])
RatSub(a, b) == Rat(a[1] * b[2] - b[1] * a[2], a[2] * b[2])
RatLeq(a, b) == a[1] * b[2] <= b[1] * a[2]
RatLess(a, b) == a[1] * b[2] < b[1] * a[2]

\* Python's true division x / k of a float by an int; k = 0 raises
\* ZeroDivisionError and is handled by the caller.
RatDivInt(a, k) == Rat(a[1], a[2] * k)

\* numpy's count / count: 0/0 is NaN, not an exception
Frac(num, den) == IF den = 0 THEN NaN ELSE Rat(num, den)

RECURSIVE RatSum(_)
RatSum(s) == IF s = <<>> THEN Zero ELSE RatAdd(Head(s), RatSum(Tail(s)))

\* ------------------------------------------------------------- tables
Column(d, c) == [i \in 1..Len(d) |-> d[i][c]]

\* data[c].unique() as a set
Unique(d, c) == {d[i][c] : i \in 1..Len(d)}

SetMin(S) == CHOOSE x \in S : \A y \in S : x <= y
SetMax(S) == CHOOSE x \in S : \A y \in S : y <= x

\* sorted(...) of a set of integers
RECURSIVE Sorted(_)
Sorted(S) == IF S = {} THEN <<>> ELSE <<SetMin(S)>> \o Sorted(S \ {SetMin(S)})

\* seq[::-1]
Reversed(s) == [i \in 1..Len(s) |-> s[Len(s) + 1 - i]]

\* mutant of Product: the first pool varies fastest
RECURSIVE ProductFirstFastest(_)
ProductFirstFastest(pools) ==
    IF pools = <<>> THEN << <<>> >>
    ELSE LET n == Len(pools)
             result == ProductFirstFastest(SubSeq(pools, 1, n - 1))
             pool == pools[n]
         IN [i \in 1..(Len(result) * Len(pool)) |->
                Append(result[((i - 1) % Len(result)) + 1],
                       pool[((i - 1) \div Len(result)) + 1])]

\* itertools.product(*pools): result = [[]];
\* for pool in pools: result = [x + [y] for x in result for y in pool]
RECURSIVE Product(_)
Product(pools) ==
    IF pools = <<>> THEN << <<>> >>
    ELSE LET n == Len(pools)
             result == Product(SubSeq(pools, 1, n - 1))
             pool == pools[n]
         IN [i \in 1..(Len(result) * Len(pool)) |->
                Append(result[((i - 1) \div Len(pool)) + 1],
                       pool[((i - 1) % Len(pool)) + 1])]

\* ------------------------------------------------------------- inputs
\* Rows are listed in non-decreasing order (column by column): neither
\* routine reads the position of a row, only its values.
RECURSIVE RowLeq(_, _, _)
RowLeq(r1, r2, cols) ==
    IF cols = <<>> THEN TRUE
    ELSE IF r1[Head(cols)] # r2[Head(cols)] THEN r1[Head(cols)] < r2[Head(cols)]
    ELSE RowLeq(r1, r2, Tail(cols))

Datasets(rows, cols) ==
    UNION {{d \in [1..n -> rows] : \A i \in 1..(n - 1) : RowLeq(d[i], d[i + 1], cols)}
           : n \in 1..MaxRows}

\* add_bias only sorts and compares the antecedent values, so they are taken
\* as consecutive levels from 0: a column with k distinct values holds 0..k-1.
BiasRows == [{"A", "X"} -> 0..MaxLevel]
BiasDatasets ==
    {d \in Datasets(BiasRows, <<"A", "X">>) :
        {d[i]["A"] : i \in 1..Len(d)} = 0..(Cardinality({d[i]["A"] : i \in 1..Len(d)}) - 1)}

\* amount in [0, 1]
Amounts == {Zero, <<1, 2>>, One}

None == [is_none |-> TRUE, list |-> <<>>]
List(l) == [is_none |-> FALSE, list |-> l]
EvidenceChoices == {None, List(<<>>), List(<<"A">>), List(<<"A", "B">>)}

CpdRows(ev) ==
    {r \in [{"X"} \cup {ev.list[i] : i \in 1..Len(ev.list)} -> 0..MaxEvidenceLevel \cup 0..MaxTargetLevel] :
        /\ r["X"] \in 0..MaxTargetLevel
        /\ \A i \in 1..Len(ev.list) : r[ev.list[i]] \in 0..MaxEvidenceLevel}
CpdDatasets(ev) == Datasets(CpdRows(ev), ev.list \o <<"X">>)

\* ------------------------------------------------------------- state
VARIABLES
    op,                    \* the function called: "add_bias" or "compute_cpd"
    pc,                    \* "start", "loop", "rows", "done", "raised"
    error,                 \* the exception that ended the call, "" if none
    before,                \* the caller's dataset as it was when the call began
    store,                 \* object id -> dataframe contents
    data,                  \* object id the local name `data` is bound to
    antecedent, consequent, positive, amount,
    antecedent_support, max_consequent_value, min_consequent_value,
    neg_amount, pos_amount, step_amount,
    step,                  \* position of the for loop in antecedent_support
    passes,                \* per row: the thresholds at which it was resampled
    zero_draw,             \* some draw so far had to be exactly 0.0 (probability 2^-53)
    variable, evidences,
    variable_support, rows_constraints, cpd, index,
    row                    \* position of the for loop in rows_constraints

biasVars == <<antecedent, consequent, positive, amount, antecedent_support,
              max_consequent_value, min_consequent_value, neg_amount, pos_amount,
              step_amount, step, passes, zero_draw>>
cpdVars == <<variable, evidences, variable_support, rows_constraints, cpd, index, row>>
vars == <<op, pc, error, before, store, data, biasVars, cpdVars>>

NewStore(d) == [id \in {"arg", "copy", "supp"} |-> IF id = "arg" THEN d ELSE <<>>]

InitBias ==
    /\ op = "add_bias"
    /\ before \in BiasDatasets
    /\ antecedent = "A" /\ consequent = "X"
    /\ positive \in BOOLEAN
    /\ amount \in Amounts
    /\ variable = "" /\ evidences = None

InitCpd ==
    /\ op = "compute_cpd"
    /\ variable = "X"
    /\ evidences \in EvidenceChoices
    /\ before \in CpdDatasets(evidences)
    /\ antecedent = "" /\ consequent = "" /\ positive = TRUE /\ amount = Zero

InitLocals ==
    /\ pc = "start" /\ error = ""
    /\ store = NewStore(before) /\ data = "arg"
    /\ antecedent_support = <<>>
    /\ max_consequent_value = 0 /\ min_consequent_value = 0
    /\ neg_amount = Zero /\ pos_amount = Zero /\ step_amount = Zero
    /\ step = 0
    /\ passes = [i \in 1..Len(before) |-> <<>>]
    /\ zero_draw = FALSE
    /\ variable_support = <<>> /\ rows_constraints = <<>>
    /\ cpd = <<>> /\ index = <<>> /\ row = 0

Init == (InitBias \/ InitCpd) /\ InitLocals

\* ------------------------------------------------------------- add_bias
\* mutant of DataCopy: no copy is made, the name stays bound to the caller's object
DataAlias(ref) == ref

\* data.copy(): the id of the object the copy lives in
DataCopy(ref) == "copy"

\* antecedent_support, lines 44-46
AntecedentSupport(d) ==
    IF positive THEN Sorted(Unique(d, antecedent))
    ELSE Reversed(Sorted(Unique(d, antecedent)))

\* The truth values random.uniform(0,1) <= p can take: the draw lies in [0,1)
DrawLeq(p) == {b \in BOOLEAN : (b => RatLeq(Zero, p)) /\ (~b => RatLess(p, One))}

\* mutant of modify_consequent_value: the tests against min and max are missing
modify_unclamped(consequent_value, d1, d2) ==
    IF d1 THEN consequent_value - 1
    ELSE IF d2 THEN consequent_value + 1
    ELSE consequent_value

\* modify_consequent_value, with the outcomes of its two comparisons
modify_consequent_value(consequent_value, d1, d2) ==
    IF d1 /\ consequent_value > min_consequent_value THEN consequent_value - 1
    ELSE IF d2 /\ consequent_value < max_consequent_value THEN consequent_value + 1
    ELSE consequent_value

ModifyOutcomes(consequent_value) ==
    {modify_consequent_value(consequent_value, d1, d2) :
        d1 \in DrawLeq(neg_amount), d2 \in DrawLeq(pos_amount)}

\* the outcomes that need no draw of exactly 0.0: a comparison against a
\* probability p <= 0 comes out false
OrdinaryOutcomes(consequent_value) ==
    {modify_consequent_value(consequent_value, d1, d2) :
        d1 \in {b \in DrawLeq(neg_amount) : b => RatLess(Zero, neg_amount)},
        d2 \in {b \in DrawLeq(pos_amount) : b => RatLess(Zero, pos_amount)}}

\* mutant of RowSelected: every row is resampled in every pass
RowSelectedAlways(a, antecedent_value) == TRUE

\* mutant of RowSelected: only the rows of the current band are resampled
RowSelectedEqual(a, antecedent_value) == a = antecedent_value

\* the mask data[antecedent] >= antecedent_value
RowSelected(a, antecedent_value) == a >= antecedent_value

\* The columns .map(modify_consequent_value) can produce for rows 1..i
RECURSIVE ResampledColumns(_, _, _)
ResampledColumns(d, antecedent_value, i) ==
    IF i = 0 THEN {<<>>}
    ELSE LET outs == IF RowSelected(d[i][antecedent], antecedent_value)
                     THEN ModifyOutcomes(d[i][consequent])
                     ELSE {d[i][consequent]}
         IN {Append(p, v) : p \in ResampledColumns(d, antecedent_value, i - 1), v \in outs}

\* mutant of StepAmount: divides by the number of values, not of steps
StepAmountPerValue(a, n) == RatDivInt(a, n)

\* step_amount, line 63, for a support of n values (n - 1 # 0)
StepAmount(a, n) == RatDivInt(a, n - 1)

\* lines 41-61, common to both outcomes of line 63
BiasPrologue ==
    /\ pc = "start" /\ op = "add_bias"
    /\ data' = DataCopy(data)
    /\ store' = [store EXCEPT ![DataCopy(data)] = store[data]]
    /\ antecedent_support' = AntecedentSupport(store[data])
    /\ max_consequent_value' = SetMax(Unique(store[data], consequent))
    /\ min_consequent_value' = SetMin(Unique(store[data], consequent))
    /\ neg_amount' = amount
    /\ pos_amount' = Zero

\* lines 41-63 when the division succeeds
AddBiasSetup ==
    /\ BiasPrologue
    /\ Len(AntecedentSupport(store[data])) - 1 # 0
    /\ step_amount' = StepAmount(amount, Len(AntecedentSupport(store[data])))
    /\ step' = 1
    /\ pc' = "loop"
    /\ UNCHANGED <<op, error, before, antecedent, consequent, positive, amount, passes,
                   zero_draw, cpdVars>>

\* lines 41-63 when len(antecedent_support) - 1 is 0: float / 0
AddBiasDivZero ==
    /\ BiasPrologue
    /\ Len(AntecedentSupport(store[data])) - 1 = 0
    /\ error' = "ZeroDivisionError"
    /\ pc' = "raised"
    /\ UNCHANGED <<op, before, antecedent, consequent, positive, amount, step_amount,
                   step, passes, zero_draw, cpdVars>>

\* one iteration of the for loop, lines 77-82
AddBiasPass ==
    /\ pc = "loop" /\ op = "add_bias"
    /\ step <= Len(antecedent_support)
    /\ LET antecedent_value == antecedent_support[step]
           d == store[data]
       IN /\ \E col \in ResampledColumns(d, antecedent_value, Len(d)) :
                /\ store' = [store EXCEPT ![data] =
                               [i \in 1..Len(d) |-> [d[i] EXCEPT ![consequent] = col[i]]]]
                /\ zero_draw' = (zero_draw \/ \E i \in 1..Len(d) :
                                    /\ RowSelected(d[i][antecedent], antecedent_value)
                                    /\ col[i] \notin OrdinaryOutcomes(d[i][consequent]))
          /\ passes' = [i \in 1..Len(d) |->
                          IF RowSelected(d[i][antecedent], antecedent_value)
                          THEN Append(passes[i], antecedent_value) ELSE passes[i]]
    /\ neg_amount' = RatSub(neg_amount, step_amount)
    /\ pos_amount' = RatAdd(pos_amount, step_amount)
    /\ step' = step + 1
    /\ UNCHANGED <<op, pc, error, before, data, antecedent, consequent, positive, amount,
                   antecedent_support, max_consequent_value, min_consequent_value,
                   step_amount, cpdVars>>

\* return data, line 84
AddBiasReturn ==
    /\ pc = "loop" /\ op = "add_bias"
    /\ step > Len(antecedent_support)
    /\ pc' = "done"
    /\ UNCHANGED <<op, error, before, store, data, biasVars, cpdVars>>

\* ------------------------------------------------------------- compute_cpd
\* mutant of NoConstraints: no row at all
NoRows == <<>>

\* rows_constraints of the `evidences is None` branch, line 122
NoConstraints == << <<>> >>

\* rows_constraints, lines 119-130
RowsConstraints(d, ev) ==
    IF ev.is_none THEN NoConstraints
    ELSE Product([i \in 1..Len(ev.list) |-> Sorted(Unique(d, ev.list[i]))])

\* data_supp[data_supp[evidence] == constr]
RECURSIVE Filter(_, _, _)
Filter(d, evidence, constr) ==
    IF d = <<>> THEN <<>>
    ELSE IF Head(d)[evidence] = constr
         THEN <<Head(d)>> \o Filter(Tail(d), evidence, constr)
         ELSE Filter(Tail(d), evidence, constr)

\* the loop of lines 150-156 from constraint i on
RECURSIVE Enforce(_, _, _, _)
Enforce(d, ev, row_constraints, i) ==
    IF i > Len(row_constraints) THEN d
    ELSE Enforce(Filter(d, ev.list[i], row_constraints[i]), ev, row_constraints, i + 1)

\* idx after the loop of lines 150-156: one ' evidence==constr ' piece per constraint
Label(ev, row_constraints) ==
    [i \in 1..Len(row_constraints) |-> <<ev.list[i], row_constraints[i]>>]

\* series[series == variable_value].count()
CountEq(d, c, variable_value) == Cardinality({i \in 1..Len(d) : d[i][c] = variable_value})

\* new_row, lines 161-162
NewRow(data_supp, var, support) ==
    [j \in 1..Len(support) |-> Frac(CountEq(data_supp, var, support[j]), Len(data_supp))]

\* mutant of FillnaZeroMean: the mean skips the missing entries
SkipnaMean(table, j) ==
    LET defined == {r \in 1..Len(table) : ~IsNaN(table[r][j])}
    IN RatDivInt(RatSum([r \in 1..Len(table) |->
                           IF IsNaN(table[r][j]) THEN Zero ELSE table[r][j]]),
                 Cardinality(defined))

\* cpd.fillna(0.0)[column j].mean()
FillnaZeroMean(table, j) ==
    RatDivInt(RatSum([r \in 1..Len(table) |->
                        IF IsNaN(table[r][j]) THEN Zero ELSE table[r][j]]),
              Len(table))

\* mutant of FillValues: the last column is filled with its mean like the others
FillValuesAllMeans(table, m) == [j \in 1..m |-> FillnaZeroMean(table, j)]

\* values, lines 170-171, as a sequence over the columns
FillValues(table, m) ==
    LET means == [j \in 1..(m - 1) |-> FillnaZeroMean(table, j)]
    IN Append(means, RatSub(One, RatSum(means)))

\* cpd.fillna(values), line 172
Fillna(table, values) ==
    [r \in 1..Len(table) |->
        [j \in 1..Len(table[r]) |->
            IF IsNaN(table[r][j]) THEN values[j] ELSE table[r][j]]]

\* lines 115-136
CpdSetup ==
    /\ pc = "start" /\ op = "compute_cpd"
    /\ variable_support' = Sorted(Unique(store[data], variable))
    /\ rows_constraints' = RowsConstraints(store[data], evidences)
    /\ cpd' = [r \in 1..Len(RowsConstraints(store[data], evidences)) |->
                 [j \in 1..Cardinality(Unique(store[data], variable)) |-> Zero]]
    /\ index' = <<>>
    /\ row' = 1
    /\ pc' = "rows"
    /\ UNCHANGED <<op, error, before, store, data, biasVars, variable, evidences>>

\* one iteration of the for loop, lines 139-167
CpdRow ==
    /\ pc = "rows" /\ op = "compute_cpd"
    /\ row <= Len(rows_constraints)
    /\ LET row_constraints == rows_constraints[row]
           data_supp == Enforce(store[data], evidences, row_constraints, 1)
       IN /\ store' = [store EXCEPT !["supp"] = data_supp]
          /\ cpd' = [cpd EXCEPT ![row] = NewRow(data_supp, variable, variable_support)]
          /\ index' = Append(index, Label(evidences, row_constraints))
    /\ row' = row + 1
    /\ UNCHANGED <<op, pc, error, before, data, biasVars, variable, evidences,
                   variable_support, rows_constraints>>

\* lines 169-181
CpdFill ==
    /\ pc = "rows" /\ op = "compute_cpd"
    /\ row > Len(rows_constraints)
    /\ cpd' = Fillna(cpd, FillValues(cpd, Len(variable_support)))
    /\ pc' = "done"
    /\ UNCHANGED <<op, error, before, store, data, biasVars, variable, evidences,
                   variable_support, rows_constraints, index, row>>

\* ------------------------------------------------------------- specification
NextBias ==
    \/ AddBiasSetup
    \/ AddBiasDivZero
    \/ AddBiasPass
    \/ AddBiasReturn

NextCpd ==
    \/ CpdSetup
    \/ CpdRow
    \/ CpdFill

Next ==
    \/ AddBiasSetup
    \/ AddBiasDivZero
    \/ AddBiasPass
    \/ AddBiasReturn
    \/ CpdSetup
    \/ CpdRow
    \/ CpdFill

\* either function called once on any bounded input
Spec == Init /\ [][Next]_vars
\* one call of add_bias
BiasCall == InitBias /\ InitLocals
SpecBias == BiasCall /\ [][NextBias]_vars
\* one call of compute_cpd
CpdCall == InitCpd /\ InitLocals
SpecCpd == CpdCall /\ [][NextCpd]_vars

\* ------------------------------------------------------------- properties: compute_cpd
CpdDone == op = "compute_cpd" /\ pc = "done"

\* dataset rows with evidence_i == x_i for all i
Matching(x) ==
    {k \in 1..Len(before) : \A i \in 1..Len(x) : before[k][evidences.list[i]] = x[i]}
MatchCount(x) == Cardinality(Matching(x))
MatchCountEq(x, v) == Cardinality({k \in Matching(x) : before[k][variable] = v})

\* the evidence combinations that occur in the dataset
MatchedCombinations ==
    {[i \in 1..Len(evidences.list) |-> before[k][evidences.list[i]]] : k \in 1..Len(before)}

RECURSIVE SupportProduct(_)
SupportProduct(i) ==
    IF i = 0 THEN 1
    ELSE Cardinality(Unique(before, evidences.list[i])) * SupportProduct(i - 1)

\* sum over the combinations in S of P(variable = v | combination)
RECURSIVE SumOfRatios(_, _)
SumOfRatios(S, v) ==
    IF S = {} THEN Zero
    ELSE LET x == CHOOSE y \in S : TRUE
         IN RatAdd(Frac(MatchCountEq(x, v), MatchCount(x)), SumOfRatios(S \ {x}, v))

RECURSIVE LexLess(_, _)
LexLess(s, t) ==
    /\ s # <<>>
    /\ \/ Head(s) < Head(t)
       \/ Head(s) = Head(t) /\ LexLess(Tail(s), Tail(t))

UnmatchedRows == {r \in 1..Len(cpd) : MatchCount(rows_constraints[r]) = 0}

\* C1: every row of the returned table sums to exactly 1, the rows completed by
\* the fill-in step included.
C1_RowsSumToOne ==
    CpdDone => \A r \in 1..Len(cpd) : RatSum(cpd[r]) = One

\* a returned table with a filled-in row and at least two columns
C1_Witness ==
    CpdDone /\ UnmatchedRows # {} /\ Len(variable_support) >= 2

\* C2 (as stated): the fill value of every column but the last is the mean over
\* only the rows whose evidence combination matched a dataset row.
C2_FillIsMeanOverDefinedRows ==
    CpdDone =>
        \A r \in UnmatchedRows : \A j \in 1..(Len(variable_support) - 1) :
            cpd[r][j] = RatDivInt(SumOfRatios(MatchedCombinations, variable_support[j]),
                                  Cardinality(MatchedCombinations))

\* C2 (amended): the fill value of every column but the last is the sum of the
\* column's defined entries divided by the number of all rows of the table
\* (missing entries count as 0 and stay in the count); the last cell is 1 minus
\* the sum of the other fill values.
C2_FillIsMeanOverAllRows ==
    CpdDone =>
        \A r \in UnmatchedRows :
            /\ \A j \in 1..(Len(variable_support) - 1) :
                 cpd[r][j] = RatDivInt(SumOfRatios(MatchedCombinations, variable_support[j]),
                                       SupportProduct(Len(evidences.list)))
            /\ cpd[r][Len(variable_support)] =
                 RatSub(One, RatSum(SubSeq(cpd[r], 1, Len(variable_support) - 1)))

\* a filled-in row whose fill value differs from the mean over the defined rows
C2_Witness ==
    /\ CpdDone
    /\ \E r \in UnmatchedRows : \E j \in 1..(Len(variable_support) - 1) :
          /\ cpd[r][j] # Zero
          /\ cpd[r][j] # RatDivInt(SumOfRatios(MatchedCombinations, variable_support[j]),
                                   Cardinality(MatchedCombinations))

\* C3: a matched combination's cell is count(evidence match and variable = v) /
\* count(evidence match); rows are in lexicographic order of the sorted
\* evidence supports and cover their whole product; columns are the target's
\* support in ascending order.
C3_CellsAreEmpiricalRatios ==
    CpdDone =>
        /\ \A j \in 1..(Len(variable_support) - 1) :
              variable_support[j] < variable_support[j + 1]
        /\ {variable_support[j] : j \in 1..Len(variable_support)} = Unique(before, variable)
        /\ \A r \in 1..(Len(rows_constraints) - 1) :
              LexLess(rows_constraints[r], rows_constraints[r + 1])
        /\ {rows_constraints[r] : r \in 1..Len(rows_constraints)} =
              {x \in [1..Len(evidences.list) -> 0..MaxEvidenceLevel] :
                  \A i \in 1..Len(x) : x[i] \in Unique(before, evidences.list[i])}
        /\ \A r \in 1..Len(cpd) :
              MatchCount(rows_constraints[r]) > 0 =>
                  \A j \in 1..Len(variable_support) :
                      /\ cpd[r][j][2] > 0
                      /\ cpd[r][j][1] * MatchCount(rows_constraints[r]) =
                            MatchCountEq(rows_constraints[r], variable_support[j]) * cpd[r][j][2]

\* two evidence columns of two values each and a cell strictly between 0 and 1
C3_Witness ==
    /\ CpdDone
    /\ Len(rows_constraints) = 4
    /\ \E r \in 1..Len(cpd) : \E j \in 1..Len(variable_support) :
          /\ MatchCount(rows_constraints[r]) > 0
          /\ RatLess(Zero, cpd[r][j]) /\ RatLess(cpd[r][j], One)

\* C4: the table has prod |support(evidence_i)| rows, one row when evidences is
\* None or empty, and one column per distinct target value.
C4_Shape ==
    (op = "compute_cpd" /\ pc \in {"rows", "done"}) =>
        /\ Len(cpd) = (IF evidences.is_none \/ evidences.list = <<>> THEN 1
                       ELSE SupportProduct(Len(evidences.list)))
        /\ \A r \in 1..Len(cpd) : Len(cpd[r]) = Cardinality(Unique(before, variable))

\* the prior of a two-valued target, returned when evidences is None
C4_Witness ==
    CpdDone /\ evidences.is_none /\ Len(cpd) = 1 /\ Len(cpd[1]) = 2

\* ------------------------------------------------------------- properties: add_bias
BiasRunning == op = "add_bias" /\ pc \in {"loop", "done"}
BiasDone == op = "add_bias" /\ pc = "done"

Rows == 1..Len(before)
In(i) == before[i][consequent]
Out(i) == store[data][i][consequent]

\* antecedent support values at or below row i's antecedent value
ThresholdsAtOrBelow(i) ==
    {t \in Unique(before, antecedent) : t <= before[i][antecedent]}

\* C5: after every pass and in the returned dataset every consequent value lies
\* within [min, max] of the original consequent column.
C5_ConsequentWithinBounds ==
    BiasRunning =>
        \A i \in Rows :
            /\ SetMin(Unique(before, consequent)) <= Out(i)
            /\ Out(i) <= SetMax(Unique(before, consequent))

\* a returned dataset in which a row was moved onto the minimum and another
\* onto the maximum
C5_Witness ==
    /\ BiasDone /\ ~zero_draw
    /\ \E i \in Rows : Out(i) # In(i) /\ Out(i) = SetMin(Unique(before, consequent))
    /\ \E i \in Rows : Out(i) # In(i) /\ Out(i) = SetMax(Unique(before, consequent))

\* C6: with a single distinct antecedent value the call ends in
\* DegenerateSupportError, before any resampling pass.
C6_DegenerateSupportError ==
    (op = "add_bias" /\ pc # "start" /\ Cardinality(Unique(before, antecedent)) = 1) =>
        (pc = "raised" /\ error = "DegenerateSupportError" /\ store[data] = before)

\* C7: the dataset the caller passed in holds the same rows and values at
\* every point of a call of add_bias or compute_cpd.
C7_CallerDatasetUnchanged ==
    store["arg"] = before

\* add_bias has returned a dataset that differs from the one passed in
C7_Witness ==
    BiasDone /\ ~zero_draw /\ store[data] # before

\* C8 (as stated): every returned consequent value equals the input value or
\* differs from it by exactly one level.  Stated for the runs in which no draw
\* was exactly 0.0, so that a violation rests on ordinary draws only.
C8_ShiftedByAtMostOne ==
    (BiasDone /\ ~zero_draw) => \A i \in Rows : Abs(Out(i) - In(i)) <= 1

\* C8 (amended): a row's consequent value differs from its input value by at
\* most the number of passes that resample it, the number of antecedent
\* support values at or below its antecedent value.
C8_ShiftedByAtMostPasses ==
    BiasRunning => \A i \in Rows : Abs(Out(i) - In(i)) <= Cardinality(ThresholdsAtOrBelow(i))

\* a returned row two levels away from its input value
C8_Witness ==
    BiasDone /\ ~zero_draw /\ \E i \in Rows : Abs(Out(i) - In(i)) = 2

\* sums of the correlation formula over the rows, y the consequent column
Sum1(f) == LET RECURSIVE S(_)
               S(i) == IF i = 0 THEN 0 ELSE f[i] + S(i - 1)
           IN S(Len(f))
Cov(x, y) == Len(x) * Sum1([i \in 1..Len(x) |-> x[i] * y[i]]) - Sum1(x) * Sum1(y)
Var(x) == Cov(x, x)

\* c1 / sqrt(v1) >= c2 / sqrt(v2), for v1, v2 > 0
RootRatioGeq(c1, v1, c2, v2) ==
    IF c1 >= 0 /\ c2 <= 0 THEN TRUE
    ELSE IF c1 < 0 /\ c2 >= 0 THEN FALSE
    ELSE IF c1 >= 0 THEN c1 * c1 * v2 >= c2 * c2 * v1
    ELSE c1 * c1 * v2 <= c2 * c2 * v1

MonotoneCase ==
    /\ op = "add_bias" /\ amount = One /\ positive
    /\ Unique(before, antecedent) = {0, 1, 2}

C10_ResampledOncePerThresholdBelow ==
    BiasRunning =>
        LET visited == {antecedent_support[k] : k \in 1..(step - 1)}
        IN /\ pc = "done" => visited = Unique(before, antecedent)
           /\ \A i \in Rows :
                /\ {passes[i][k] : k \in 1..Len(passes[i])} = ThresholdsAtOrBelow(i) \cap visited
                /\ Len(passes[i]) = Cardinality(ThresholdsAtOrBelow(i) \cap visited)

\* a descending run that resampled one row three times and another once
C10_Witness ==
    /\ BiasDone /\ ~positive
    /\ \E i, j \in Rows : Len(passes[i]) = 3 /\ Len(passes[j]) = 1

====
